---- MODULE Spec2Model ----
(***************************************************************************)
(* Model of the data/store layer of the TODO-template application:         *)
(* LocalStorageManager (src/script.js), its persistence through one        *)
(* localStorage slot, and the legacy flat-item records written by the      *)
(* older variant of the same program (src/unnamed/part_000).               *)
(*                                                                         *)
(* JavaScript objects are modelled as TLA+ records whose DOMAIN is the set *)
(* of keys the object has: a legacy template has the key "items" and no    *)
(* key "sections".  Ids (UUID strings in the program) are modelled as      *)
(* positive naturals handed out by a counter; only equality of ids is used *)
(* by the program.                                                         *)
(***************************************************************************)
EXTENDS Naturals, Sequences, FiniteSets, TLC

VARIABLES
    data,       \* this.data of the LocalStorageManager: {templates, groups}
    storage,    \* the localStorage slot 'todo_app_v2'
    nextId,     \* the next value crypto.randomUUID() hands out
    now,        \* the wall clock read by Date.now()
    lastOp,     \* the store method called last
    ret,        \* what that call returned
    calls,      \* how many calls have been made
    timers,     \* the group ids of the pending setTimeout callbacks, oldest first
    unarchived  \* the groups the user unarchived and has not toggled since

vars == <<data, storage, nextId, now, lastOp, ret, calls, timers, unarchived>>

(***************************************************************************)
(* Bounds of the model.                                                    *)
(***************************************************************************)
MaxCalls == 2          \* calls of the store in one behaviour
MaxClock == 1          \* last value of the clock
MaxEvents == 4         \* clicks on the page in one behaviour

(***************************************************************************)
(* Values.                                                                 *)
(***************************************************************************)
\* null, as the templateId of an ad-hoc group; ids are >= 1
Null == 0

\* ' のコピー', the suffix duplicateTemplate appends to the title
CopySuffix == " copy"

\* '一般', the title of the section synthesized for legacy flat items
GeneralTitle == "General"

Has(obj, key) == key \in DOMAIN obj

\* obj.key = val on a JavaScript object: adds the key when it is missing
SetField(obj, key, val) ==
    [k \in DOMAIN obj \cup {key} |-> IF k = key THEN val ELSE obj[k]]

Range(s) == {s[i] : i \in 1..Len(s)}

(***************************************************************************)
(* The persisted blob.  The slot is absent, or holds a text.  A text is    *)
(* the empty string, a text JSON.parse rejects, or a JSON text, modelled   *)
(* by the JSON value it denotes: a tagged tuple <<"num", n>>, <<"str", s>>,*)
(* <<"bool", b>>, <<"null">>, <<"arr", seq>> or <<"obj", record>>.         *)
(* Key order of JSON objects is not modelled.                              *)
(***************************************************************************)
Absent == <<"absent">>
EmptyText == <<"empty">>
GarbageText == <<"garbage">>

JNum(n) == <<"num", n>>
JStr(s) == <<"str", s>>
JBool(b) == <<"bool", b>>
JNull == <<"null">>
JArr(s) == <<"arr", s>>
JObj(r) == <<"obj", r>>

NumKeys == {"id", "createdAt", "updatedAt"}
StrKeys == {"title", "text", "status"}
BoolKeys == {"completed"}
ArrKeys == {"templates", "groups", "sections", "items"}

\* JSON.stringify of a value of the store, by the type the value has under
\* that key: numbers, strings, booleans, null, arrays of objects, objects
RECURSIVE StringifyField(_, _), StringifyObj(_)
StringifyField(key, v) ==
    CASE key \in NumKeys -> JNum(v)
      [] key = "templateId" -> IF v = Null THEN JNull ELSE JNum(v)
      [] key \in StrKeys -> JStr(v)
      [] key \in BoolKeys -> JBool(v)
      [] key \in ArrKeys -> JArr([i \in 1..Len(v) |-> StringifyObj(v[i])])

StringifyObj(o) == JObj([k \in DOMAIN o |-> StringifyField(k, o[k])])

JSONstringify(d) == StringifyObj(d)

\* JSON.parse of a JSON text: the value it denotes
RECURSIVE ParseValue(_)
ParseValue(j) ==
    CASE j[1] = "num" -> j[2]
      [] j[1] = "str" -> j[2]
      [] j[1] = "bool" -> j[2]
      [] j[1] = "null" -> Null
      [] j[1] = "arr" -> [i \in 1..Len(j[2]) |-> ParseValue(j[2][i])]
      [] j[1] = "obj" -> [k \in DOMAIN j[2] |-> ParseValue(j[2][k])]

\* JSON.parse throws a SyntaxError on these texts
ParseThrows(text) == text \in {EmptyText, GarbageText}

_getDefaultData == [templates |-> <<>>, groups |-> <<>>]

\* _loadData that falls back to the default data when a key is missing
_loadData_defaultOnMissingKey(blob) ==
    IF blob # Absent /\ blob # EmptyText
    THEN IF ParseThrows(blob)
         THEN [threw |-> FALSE, data |-> _getDefaultData]
         ELSE IF blob = JNull
              THEN [threw |-> FALSE, data |-> _getDefaultData]
              ELSE LET parsed == ParseValue(blob)
                   IN  IF Has(parsed, "templates") /\ Has(parsed, "groups")
                       THEN [threw |-> FALSE, data |-> parsed]
                       ELSE [threw |-> FALSE, data |-> _getDefaultData]
    ELSE [threw |-> FALSE, data |-> _getDefaultData]

\* _loadData: [threw, data].  The try block covers JSON.parse and the two
\* normalisations; reading a property of null and (class bodies being strict
\* code) writing a property of a primitive throw a TypeError inside it.
_loadData(blob) ==
    IF blob # Absent /\ blob # EmptyText
    THEN IF ParseThrows(blob)
         THEN [threw |-> FALSE, data |-> _getDefaultData]
         ELSE IF blob = JNull
              THEN [threw |-> FALSE, data |-> _getDefaultData]
              ELSE LET parsed == ParseValue(blob)
                       d1 == IF ~Has(parsed, "templates")
                             THEN SetField(parsed, "templates", <<>>)
                             ELSE parsed
                       d2 == IF ~Has(d1, "groups")
                             THEN SetField(d1, "groups", <<>>)
                             ELSE d1
                   IN  [threw |-> FALSE, data |-> d2]
    ELSE [threw |-> FALSE, data |-> _getDefaultData]

\* _saveData that writes the templates only
_saveData_templatesOnly(d) == JSONstringify([templates |-> d.templates])

\* _saveData: the text written to the slot
_saveData(d) == JSONstringify(d)

\* index of the first element of s with that id, 0 when there is none
\* (Array.prototype.find by id)
FindIndex(s, id) ==
    IF \E i \in 1..Len(s) : s[i].id = id
    THEN CHOOSE i \in 1..Len(s) :
            /\ s[i].id = id
            /\ \A j \in 1..(i - 1) : s[j].id # id
    ELSE 0

\* the ids of a list of records
IdsOf(records) == {records[i].id : i \in 1..Len(records)}

\* the group of d that has that id
GroupById(d, groupId) == d.groups[FindIndex(d.groups, groupId)]

(***************************************************************************)
(* The store's methods.  Each is an operator over the current state that   *)
(* yields [data, ret, ids, save]: this.data when the method returns, the   *)
(* value returned, how many ids _generateId handed out, and whether        *)
(* _saveData ran.                                                          *)
(***************************************************************************)
RetNull == [kind |-> "null"]
RetUndefined == [kind |-> "undefined"]
RetObj(v) == [kind |-> "obj", val |-> v]
RetThrow == [kind |-> "throw"]

NotFound == [data |-> data, ret |-> RetNull, ids |-> 0, save |-> FALSE]

\* the k-th id _generateId returns during the current call, k = 1, 2, ...
_generateId(k) == nextId + (k - 1)

\* _touch that sets createdAt whether or not the object is new
_touchAt_asNew(obj, isNew, t) ==
    SetField(SetField(obj, "createdAt", t), "updatedAt", t)

\* _touch, Date.now() returning t
_touchAt(obj, isNew, t) ==
    LET o == IF isNew THEN SetField(obj, "createdAt", t) ELSE obj
    IN  SetField(o, "updatedAt", t)

_touch(obj, isNew) == _touchAt(obj, isNew, now)

getTemplates == data.templates

\* items.map(text => ({ text }))
TextItems(texts) == [k \in 1..Len(texts) |-> [text |-> texts[k]]]

\* items.map(i => i.text)
ItemTexts(items) == [k \in 1..Len(items) |-> items[k].text]

\* sectionsData.map(sec => ({id: _generateId(), title, items: ...})), the
\* first id being the k-th of the call
TemplateSections(sectionsData, k) ==
    [i \in 1..Len(sectionsData) |->
        [id |-> _generateId(k + i - 1),
         title |-> sectionsData[i].title,
         items |-> TextItems(sectionsData[i].items)]]

\* createTemplate that builds the template and saves, without the push
createTemplate_noPush(title, sectionsData) ==
    LET sections == TemplateSections(sectionsData, 1)
        newTemplate == _touch([id |-> _generateId(Len(sectionsData) + 1),
                               title |-> title,
                               sections |-> sections], TRUE)
    IN  [data |-> data,
         ret |-> RetObj(newTemplate),
         ids |-> Len(sectionsData) + 1,
         save |-> TRUE]

createTemplate(title, sectionsData) ==
    LET sections == TemplateSections(sectionsData, 1)
        newTemplate == _touch([id |-> _generateId(Len(sectionsData) + 1),
                               title |-> title,
                               sections |-> sections], TRUE)
    IN  [data |-> [data EXCEPT !.templates = Append(@, newTemplate)],
         ret |-> RetObj(newTemplate),
         ids |-> Len(sectionsData) + 1,
         save |-> TRUE]

\* updateTemplate that adds the new sections after the old ones
updateTemplate_append(id, title, sectionsData) ==
    LET ti == FindIndex(data.templates, id)
        template == data.templates[ti]
        t1 == IF title # <<>> THEN SetField(template, "title", title[1])
              ELSE template
        old == IF Has(template, "sections") THEN template.sections ELSE <<>>
        t2 == IF sectionsData # <<>>
              THEN SetField(t1, "sections",
                            old \o TemplateSections(sectionsData[1], 1))
              ELSE t1
        t3 == _touch(t2, FALSE)
    IN  IF ti = 0 THEN NotFound
        ELSE [data |-> [data EXCEPT !.templates[ti] = t3],
              ret |-> RetObj(t3),
              ids |-> IF sectionsData # <<>> THEN Len(sectionsData[1]) ELSE 0,
              save |-> TRUE]

\* title and sectionsData are <<>> when undefined, <<value>> otherwise
updateTemplate(id, title, sectionsData) ==
    LET ti == FindIndex(data.templates, id)
        template == data.templates[ti]
        t1 == IF title # <<>> THEN SetField(template, "title", title[1])
              ELSE template
        t2 == IF sectionsData # <<>>
              THEN SetField(t1, "sections", TemplateSections(sectionsData[1], 1))
              ELSE t1
        t3 == _touch(t2, FALSE)
    IN  IF ti = 0 THEN NotFound
        ELSE [data |-> [data EXCEPT !.templates[ti] = t3],
              ret |-> RetObj(t3),
              ids |-> IF sectionsData # <<>> THEN Len(sectionsData[1]) ELSE 0,
              save |-> TRUE]

\* deleteTemplate that also removes the groups instantiated from the template
deleteTemplate_cascade(id) ==
    LET keep(t) == t.id # id
        keepGroup(g) == g.templateId # id
    IN  [data |-> [templates |-> SelectSeq(data.templates, keep),
                   groups |-> SelectSeq(data.groups, keepGroup)],
         ret |-> RetUndefined,
         ids |-> 0,
         save |-> TRUE]

deleteTemplate(id) ==
    LET keep(t) == t.id # id
    IN  [data |-> [data EXCEPT !.templates = SelectSeq(@, keep)],
         ret |-> RetUndefined,
         ids |-> 0,
         save |-> TRUE]

duplicateTemplate(templateId) ==
    LET ti == FindIndex(data.templates, templateId)
        template == data.templates[ti]
        secs == IF Has(template, "sections") THEN template.sections ELSE <<>>
        copied == [i \in 1..Len(secs) |->
                      [title |-> secs[i].title, items |-> ItemTexts(secs[i].items)]]
        sectionsData ==
            IF (~Has(template, "sections") \/ Len(template.sections) = 0)
               /\ Has(template, "items")
            THEN Append(copied, [title |-> GeneralTitle,
                                 items |-> ItemTexts(template.items)])
            ELSE copied
    IN  IF ti = 0 THEN NotFound
        ELSE createTemplate(template.title \o CopySuffix, sectionsData)

\* getGroups that returns every group whatever the filter
getGroups_noFilter(statusFilter) == data.groups

getGroups(statusFilter) ==
    LET match(g) == g.status = statusFilter
    IN  IF statusFilter = "all" THEN data.groups
        ELSE SelectSeq(data.groups, match)

\* ids generated for a list of sections: one per section and one per item
RECURSIVE IdsUsed(_)
IdsUsed(secs) ==
    IF secs = <<>> THEN 0
    ELSE 1 + Len(Head(secs).items) + IdsUsed(Tail(secs))

\* items.map with the id generated once, before the map
GroupItems_oneId(texts, k) ==
    [j \in 1..Len(texts) |->
        [id |-> _generateId(k), text |-> texts[j], completed |-> FALSE]]

\* items.map(x => ({id: _generateId(), text, completed: false})), the first
\* id being the k-th of the call
GroupItems(texts, k) ==
    [j \in 1..Len(texts) |->
        [id |-> _generateId(k + j - 1), text |-> texts[j], completed |-> FALSE]]

\* secs.map(sec => ({id: _generateId(), title, items: ...})) over sections
\* given as [title, items: texts]; a section's id is generated before the
\* ids of its items, section after section; the first id is the k-th
GroupSections(secs, k) ==
    [i \in 1..Len(secs) |->
        LET b == k + IdsUsed(SubSeq(secs, 1, i - 1))
        IN  [id |-> _generateId(b),
             title |-> secs[i].title,
             items |-> GroupItems(secs[i].items, b + 1)]]

\* createGroupFromTemplate without the branch for flat items
createGroupFromTemplate_noLegacy(templateId) ==
    LET ti == FindIndex(data.templates, templateId)
        template == data.templates[ti]
        secs == IF Has(template, "sections") THEN template.sections ELSE <<>>
        texts == [i \in 1..Len(secs) |->
                     [title |-> secs[i].title, items |-> ItemTexts(secs[i].items)]]
        groupSections == GroupSections(texts, 1)
        n == IdsUsed(texts)
        newGroup == _touch([id |-> _generateId(n + 1),
                            templateId |-> template.id,
                            status |-> "active",
                            title |-> template.title,
                            sections |-> groupSections], TRUE)
    IN  IF ti = 0 THEN NotFound
        ELSE [data |-> [data EXCEPT !.groups = Append(@, newGroup)],
              ret |-> RetObj(newGroup),
              ids |-> n + 1,
              save |-> TRUE]

createGroupFromTemplate(templateId) ==
    LET ti == FindIndex(data.templates, templateId)
        template == data.templates[ti]
        secs == IF Has(template, "sections") THEN template.sections ELSE <<>>
        texts == [i \in 1..Len(secs) |->
                     [title |-> secs[i].title, items |-> ItemTexts(secs[i].items)]]
        copied == GroupSections(texts, 1)
        n == IdsUsed(texts)
        legacy == ~Has(template, "sections") /\ Has(template, "items")
        groupSections ==
            IF legacy
            THEN Append(copied,
                        [id |-> _generateId(n + 1),
                         title |-> GeneralTitle,
                         items |-> GroupItems(ItemTexts(template.items), n + 2)])
            ELSE copied
        m == IF legacy THEN n + 1 + Len(template.items) ELSE n
        newGroup == _touch([id |-> _generateId(m + 1),
                            templateId |-> template.id,
                            status |-> "active",
                            title |-> template.title,
                            sections |-> groupSections], TRUE)
    IN  IF ti = 0 THEN NotFound
        ELSE [data |-> [data EXCEPT !.groups = Append(@, newGroup)],
              ret |-> RetObj(newGroup),
              ids |-> m + 1,
              save |-> TRUE]

createGroup(title, sectionsData) ==
    LET sections == GroupSections(sectionsData, 1)
        n == IdsUsed(sectionsData)
        newGroup == _touch([id |-> _generateId(n + 1),
                            templateId |-> Null,
                            status |-> "active",
                            title |-> title,
                            sections |-> sections], TRUE)
    IN  [data |-> [data EXCEPT !.groups = Append(@, newGroup)],
         ret |-> RetObj(newGroup),
         ids |-> n + 1,
         save |-> TRUE]

\* todo.completed = true in place of the negation
FlipItem_setTrue(items, todoId) ==
    LET k == FindIndex(items, todoId)
    IN  [items EXCEPT ![k].completed = TRUE]

\* the negation applied to every item of the list
FlipItem_all(items, todoId) ==
    [k \in 1..Len(items) |-> [items[k] EXCEPT !.completed = ~items[k].completed]]

\* todo.completed = !todo.completed on the first item of items with that id
FlipItem(items, todoId) ==
    LET k == FindIndex(items, todoId)
    IN  [items EXCEPT ![k].completed = ~items[k].completed]

\* toggleTodoCompletion that touches and saves the group whether or not the
\* item was found
toggleTodoCompletionAt_touchAlways(d, t, groupId, todoId) ==
    LET gi == FindIndex(d.groups, groupId)
        group == d.groups[gi]
        hits == IF Has(group, "sections")
                THEN {i \in 1..Len(group.sections) :
                         FindIndex(group.sections[i].items, todoId) # 0}
                ELSE {}
        si == CHOOSE i \in hits : \A j \in hits : i <= j
        found == hits # {}
                 \/ (Has(group, "items") /\ FindIndex(group.items, todoId) # 0)
        toggled ==
            IF hits # {}
            THEN [group EXCEPT !.sections[si].items = FlipItem(@, todoId)]
            ELSE IF found THEN [group EXCEPT !.items = FlipItem(@, todoId)]
            ELSE group
        g == _touchAt(toggled, FALSE, t)
    IN  IF gi = 0
        THEN [data |-> d, ret |-> RetNull, ids |-> 0, save |-> FALSE]
        ELSE [data |-> [d EXCEPT !.groups[gi] = g],
              ret |-> IF found THEN RetObj(g) ELSE RetNull,
              ids |-> 0,
              save |-> TRUE]

\* toggleTodoCompletion that also touches the template the group came from
toggleTodoCompletionAt_touchSource(d, t, groupId, todoId) ==
    LET gi == FindIndex(d.groups, groupId)
        group == d.groups[gi]
        hits == IF Has(group, "sections")
                THEN {i \in 1..Len(group.sections) :
                         FindIndex(group.sections[i].items, todoId) # 0}
                ELSE {}
        si == CHOOSE i \in hits : \A j \in hits : i <= j
        toggled ==
            IF hits # {}
            THEN _touchAt([group EXCEPT !.sections[si].items = FlipItem(@, todoId)],
                          FALSE, t)
            ELSE _touchAt([group EXCEPT !.items = FlipItem(@, todoId)], FALSE, t)
        ti == FindIndex(d.templates, group.templateId)
        touched == IF ti = 0 THEN d.templates
                   ELSE [d.templates EXCEPT ![ti] = _touchAt(@, FALSE, t)]
        found == hits # {}
                 \/ (Has(group, "items") /\ FindIndex(group.items, todoId) # 0)
    IN  IF gi = 0 \/ ~found
        THEN [data |-> d, ret |-> RetNull, ids |-> 0, save |-> FALSE]
        ELSE [data |-> [templates |-> touched,
                        groups |-> [d.groups EXCEPT ![gi] = toggled]],
              ret |-> RetObj(toggled),
              ids |-> 0,
              save |-> TRUE]

\* toggleTodoCompletion on a store whose this.data is d, called at time t
toggleTodoCompletionAt(d, t, groupId, todoId) ==
    LET gi == FindIndex(d.groups, groupId)
        group == d.groups[gi]
        hits == IF Has(group, "sections")
                THEN {i \in 1..Len(group.sections) :
                         FindIndex(group.sections[i].items, todoId) # 0}
                ELSE {}
        si == CHOOSE i \in hits : \A j \in hits : i <= j
        inSection ==
            _touchAt([group EXCEPT !.sections[si].items = FlipItem(@, todoId)],
                     FALSE, t)
        inItems == _touchAt([group EXCEPT !.items = FlipItem(@, todoId)], FALSE, t)
        done(g) == [data |-> [d EXCEPT !.groups[gi] = g],
                    ret |-> RetObj(g),
                    ids |-> 0,
                    save |-> TRUE]
        notFound == [data |-> d, ret |-> RetNull, ids |-> 0, save |-> FALSE]
    IN  IF gi = 0 THEN notFound
        ELSE IF hits # {} THEN done(inSection)
        ELSE IF Has(group, "items") /\ FindIndex(group.items, todoId) # 0
             THEN done(inItems)
        ELSE notFound

toggleTodoCompletion(groupId, todoId) ==
    toggleTodoCompletionAt(data, now, groupId, todoId)

\* checkAllCompleted without the hasItems flag
checkAllCompleted_noHasItems(groupId) ==
    LET gi == FindIndex(data.groups, groupId)
        group == data.groups[gi]
        secDone(sec) == \A k \in 1..Len(sec.items) : sec.items[k].completed
    IN  IF gi = 0 THEN FALSE
        ELSE IF Has(group, "sections") /\ Len(group.sections) > 0
             THEN \A i \in 1..Len(group.sections) : secDone(group.sections[i])
        ELSE IF Has(group, "items")
             THEN Len(group.items) > 0
                  /\ \A k \in 1..Len(group.items) : group.items[k].completed
        ELSE FALSE

checkAllCompleted(groupId) ==
    LET gi == FindIndex(data.groups, groupId)
        group == data.groups[gi]
        secDone(sec) == \A k \in 1..Len(sec.items) : sec.items[k].completed
        hasItems == \E i \in 1..Len(group.sections) : Len(group.sections[i].items) > 0
        allSectionsDone == \A i \in 1..Len(group.sections) : secDone(group.sections[i])
    IN  IF gi = 0 THEN FALSE
        ELSE IF Has(group, "sections") /\ Len(group.sections) > 0
             THEN hasItems /\ allSectionsDone
        ELSE IF Has(group, "items")
             THEN Len(group.items) > 0
                  /\ \A k \in 1..Len(group.items) : group.items[k].completed
        ELSE FALSE

\* checkAllCompleted of the flat-item variant of the program, which reads
\* group.items and is defined on groups that have that key
checkAllCompletedFlat(groupId) ==
    LET gi == FindIndex(data.groups, groupId)
        group == data.groups[gi]
    IN  IF gi = 0 THEN FALSE
        ELSE Len(group.items) > 0
             /\ \A k \in 1..Len(group.items) : group.items[k].completed

\* archiveGroup without the test of the group it found: it reads the status
\* of undefined
archiveGroup_noGuard(groupId) ==
    LET gi == FindIndex(data.groups, groupId)
        group == _touch(SetField(data.groups[gi], "status", "archived"), FALSE)
    IN  IF gi = 0 THEN [NotFound EXCEPT !.ret = RetThrow]
        ELSE [data |-> [data EXCEPT !.groups[gi] = group],
              ret |-> RetObj(group),
              ids |-> 0,
              save |-> TRUE]

\* archiveGroup without the call of _saveData
archiveGroup_noSave(groupId) ==
    LET gi == FindIndex(data.groups, groupId)
        group == _touch(SetField(data.groups[gi], "status", "archived"), FALSE)
    IN  IF gi = 0 THEN NotFound
        ELSE [data |-> [data EXCEPT !.groups[gi] = group],
              ret |-> RetObj(group),
              ids |-> 0,
              save |-> FALSE]

archiveGroup(groupId) ==
    LET gi == FindIndex(data.groups, groupId)
        group == _touch(SetField(data.groups[gi], "status", "archived"), FALSE)
    IN  IF gi = 0 THEN NotFound
        ELSE [data |-> [data EXCEPT !.groups[gi] = group],
              ret |-> RetObj(group),
              ids |-> 0,
              save |-> TRUE]

unarchiveGroup(groupId) ==
    LET gi == FindIndex(data.groups, groupId)
        group == _touch(SetField(data.groups[gi], "status", "active"), FALSE)
    IN  IF gi = 0 THEN NotFound
        ELSE [data |-> [data EXCEPT !.groups[gi] = group],
              ret |-> RetObj(group),
              ids |-> 0,
              save |-> TRUE]

\* deleteGroup that keeps only the groups before the first match
deleteGroup_truncate(groupId) ==
    LET gi == FindIndex(data.groups, groupId)
    IN  [data |-> [data EXCEPT !.groups =
                      IF gi = 0 THEN @ ELSE SubSeq(@, 1, gi - 1)],
         ret |-> RetUndefined,
         ids |-> 0,
         save |-> TRUE]

deleteGroup(groupId) ==
    LET keep(g) == g.id # groupId
    IN  [data |-> [data EXCEPT !.groups = SelectSeq(@, keep)],
         ret |-> RetUndefined,
         ids |-> 0,
         save |-> TRUE]

(***************************************************************************)
(* What the slot may hold when the page is opened: nothing, the empty      *)
(* string, an unparsable text, the JSON text null, a document written by   *)
(* the flat-item variant of the program and lacking a key, or a document   *)
(* written by an earlier session of the program (createTemplate,           *)
(* createGroupFromTemplate, then one toggle).                              *)
(***************************************************************************)
LegacyTemplate ==
    [id |-> 1, title |-> "L",
     items |-> <<[text |-> "a"], [text |-> "b"]>>,
     createdAt |-> 0, updatedAt |-> 0]

LegacyGroup ==
    [id |-> 2, templateId |-> 1, status |-> "active", title |-> "L",
     items |-> <<[id |-> 3, text |-> "a", completed |-> FALSE],
                 [id |-> 4, text |-> "b", completed |-> TRUE]>>,
     createdAt |-> 0, updatedAt |-> 0]

SectionedTemplate ==
    [id |-> 7, title |-> "A",
     sections |-> <<[id |-> 5, title |-> "S", items |-> <<>>],
                    [id |-> 6, title |-> "R",
                     items |-> <<[text |-> "x"], [text |-> "y"]>>]>>,
     createdAt |-> 0, updatedAt |-> 0]

SectionedGroup ==
    [id |-> 12, templateId |-> 7, status |-> "active", title |-> "A",
     sections |-> <<[id |-> 8, title |-> "S", items |-> <<>>],
                    [id |-> 9, title |-> "R",
                     items |-> <<[id |-> 10, text |-> "x", completed |-> TRUE],
                                 [id |-> 11, text |-> "y", completed |-> FALSE]>>]>>,
     createdAt |-> 0, updatedAt |-> 0]

LoadedIds == 1..12

InitialBlobs ==
    {Absent, EmptyText, GarbageText, JNull,
     JSONstringify([templates |-> <<LegacyTemplate>>]),
     JSONstringify([groups |-> <<LegacyGroup>>]),
     JSONstringify([templates |-> <<SectionedTemplate>>,
                    groups |-> <<SectionedGroup>>])}

\* the generator never returns an id that is already stored
FirstFreshId == Cardinality(LoadedIds) + 1

(***************************************************************************)
(* Inputs of the calls.                                                    *)
(***************************************************************************)
Titles == {"A"}

\* an optional argument: <<>> when undefined, <<value>> otherwise
Optional(S) == {<<>>} \cup {<<x>> : x \in S}

\* what the template form submits: no section, or an empty section followed
\* by a section of two items
TemplateSectionInputs ==
    {<<>>,
     <<[title |-> "S", items |-> <<>>], [title |-> "R", items |-> <<"x", "y">>]>>}

\* what createGroup is given: the same, or the one empty section of the
\* quick-add button
SectionInputs ==
    TemplateSectionInputs \cup {<<[title |-> GeneralTitle, items |-> <<>>]>>}

TemplateIds == {data.templates[i].id : i \in 1..Len(data.templates)}

GroupIds == {data.groups[i].id : i \in 1..Len(data.groups)}

\* an id no record has: the generator has not handed it out yet
UnknownId == nextId

ItemsOf(group) ==
    (IF Has(group, "sections")
     THEN UNION {Range(group.sections[i].items) : i \in 1..Len(group.sections)}
     ELSE {})
    \cup (IF Has(group, "items") THEN Range(group.items) ELSE {})

ItemIdsOf(group) == {it.id : it \in ItemsOf(group)}

ItemIds == UNION {{it.id : it \in ItemsOf(data.groups[i])} : i \in 1..Len(data.groups)}

TemplateIdArgs == TemplateIds \cup {UnknownId}

GroupIdArgs == GroupIds \cup {UnknownId}

ItemIdArgs == ItemIds \cup {UnknownId}

(***************************************************************************)
(* The state machine: one action per store method, a page reload, and the  *)
(* passage of time.                                                        *)
(***************************************************************************)
Init ==
    /\ storage \in InitialBlobs
    /\ data = _loadData(storage).data
    /\ nextId = FirstFreshId
    /\ now = 0
    /\ lastOp = "load"
    /\ ret = IF _loadData(storage).threw THEN RetThrow ELSE RetUndefined
    /\ calls = 0
    /\ timers = <<>>
    /\ unarchived = {}

\* the slot after a call with result res
BlobAfter(res) == IF res.save THEN _saveData(res.data) ELSE storage

\* a call of the store method op with result res
Call(op, res) ==
    /\ calls < MaxCalls
    /\ calls' = calls + 1
    /\ data' = res.data
    /\ storage' = BlobAfter(res)
    /\ nextId' = nextId + res.ids
    /\ lastOp' = op
    /\ ret' = res.ret
    /\ UNCHANGED <<now, timers, unarchived>>

\* new LocalStorageManager() on a page load
Reload ==
    /\ calls < MaxCalls
    /\ calls' = calls + 1
    /\ data' = _loadData(storage).data
    /\ lastOp' = "load"
    /\ ret' = IF _loadData(storage).threw THEN RetThrow ELSE RetUndefined
    /\ timers' = <<>>
    /\ UNCHANGED <<storage, nextId, now, unarchived>>

Tick ==
    /\ now < MaxClock
    /\ now' = now + 1
    /\ UNCHANGED <<data, storage, nextId, lastOp, ret, calls, timers, unarchived>>

CreateTemplate ==
    \E title \in Titles, sd \in TemplateSectionInputs :
        Call("createTemplate", createTemplate(title, sd))

UpdateTemplate ==
    \E id \in TemplateIdArgs, title \in Optional(Titles), sd \in Optional(TemplateSectionInputs) :
        Call("updateTemplate", updateTemplate(id, title, sd))

DeleteTemplate ==
    \E id \in TemplateIdArgs :
        Call("deleteTemplate", deleteTemplate(id))

DuplicateTemplate ==
    \E id \in TemplateIdArgs :
        Call("duplicateTemplate", duplicateTemplate(id))

CreateGroupFromTemplate ==
    \E id \in TemplateIdArgs :
        Call("createGroupFromTemplate", createGroupFromTemplate(id))

CreateGroup ==
    \E title \in Titles, sd \in SectionInputs :
        Call("createGroup", createGroup(title, sd))

ToggleTodoCompletion ==
    \E id \in GroupIdArgs, item \in ItemIdArgs :
        Call("toggleTodoCompletion", toggleTodoCompletion(id, item))

ArchiveGroup ==
    \E id \in GroupIdArgs :
        Call("archiveGroup", archiveGroup(id))

UnarchiveGroup ==
    \E id \in GroupIdArgs :
        Call("unarchiveGroup", unarchiveGroup(id))

DeleteGroup ==
    \E id \in GroupIdArgs :
        Call("deleteGroup", deleteGroup(id))

Next ==
    \/ Reload
    \/ Tick
    \/ CreateTemplate
    \/ UpdateTemplate
    \/ DeleteTemplate
    \/ DuplicateTemplate
    \/ CreateGroupFromTemplate
    \/ CreateGroup
    \/ ToggleTodoCompletion
    \/ ArchiveGroup
    \/ UnarchiveGroup
    \/ DeleteGroup

Spec == Init /\ [][Next]_vars

(***************************************************************************)
(* The page: the handlers of UIManager that act on groups, and the timers  *)
(* of the auto-archive.  Every timer has the same delay, so the callbacks  *)
(* run in the order in which they were scheduled; between two of them any  *)
(* click may be handled.  A handler runs to its end before the next one    *)
(* starts.                                                                 *)
(***************************************************************************)
\* the items renderActiveGroups draws for a group: those of its sections, or
\* its flat items when it has no section
RenderedItemIds(group) ==
    LET sections == IF Has(group, "sections") THEN group.sections ELSE <<>>
    IN  IF Len(sections) = 0 /\ Has(group, "items") /\ Len(group.items) > 0
        THEN {group.items[k].id : k \in 1..Len(group.items)}
        ELSE UNION {{sections[i].items[k].id : k \in 1..Len(sections[i].items)} :
                        i \in 1..Len(sections)}

ActiveGroupIds == IdsOf(getGroups("active"))

ArchivedGroupIds == IdsOf(getGroups("archived"))

\* triggerAutoArchive that schedules nothing
triggerAutoArchive_none(groupId) == timers

\* triggerAutoArchive that schedules the archive of every group of the store
triggerAutoArchive_every(groupId) ==
    timers \o [k \in 1..Len(data.groups) |-> data.groups[k].id]

\* triggerAutoArchive: setTimeout(() => store.archiveGroup(groupId), 2000)
triggerAutoArchive(groupId) == Append(timers, groupId)

\* a click handled by the page: a store call with result res, after which
\* the pending timers are pending; an unarchive is remembered until the
\* group is toggled or is gone
Handle(op, res, pending) ==
    /\ calls < MaxEvents
    /\ calls' = calls + 1
    /\ data' = res.data
    /\ storage' = BlobAfter(res)
    /\ nextId' = nextId + res.ids
    /\ lastOp' = op
    /\ ret' = res.ret
    /\ timers' = pending
    /\ unarchived' =
          (CASE op = "unarchiveGroup" /\ res.ret.kind = "obj"
                    -> unarchived \cup {res.ret.val.id}
             [] op = "toggleItem" /\ res.ret.kind = "obj"
                    -> unarchived \ {res.ret.val.id}
             [] OTHER -> unarchived)
          \cap IdsOf(res.data.groups)
    /\ UNCHANGED now

\* toggleItem: the toggle, then checkAllCompleted on the store as the
\* toggle left it
toggleItem(groupId, todoId) ==
    Handle("toggleItem", toggleTodoCompletion(groupId, todoId),
           IF checkAllCompleted(groupId)' THEN triggerAutoArchive(groupId)
           ELSE timers)

ToggleItem ==
    \E g \in ActiveGroupIds :
        \E i \in RenderedItemIds(GroupById(data, g)) : toggleItem(g, i)

\* the unarchive button of an archived group
UIUnarchiveGroup ==
    \E g \in ArchivedGroupIds :
        Handle("unarchiveGroup", unarchiveGroup(g), timers)

\* the delete button of a group, active or archived, once confirmed
UIDeleteGroup ==
    \E g \in GroupIds :
        Handle("deleteGroup", deleteGroup(g), timers)

\* the start button of a template
startFromTemplate ==
    \E t \in TemplateIds :
        Handle("startFromTemplate", createGroupFromTemplate(t), timers)

\* what the quick-add button passes for the sections
QuickAddSections == <<[title |-> GeneralTitle, items |-> <<>>]>>

\* the quick-add button, a title being typed
QuickAdd ==
    \E title \in Titles, sd \in {QuickAddSections} :
        Handle("quickAdd", createGroup(title, sd), timers)

\* the oldest pending callback runs: store.archiveGroup(groupId)
TimerFires ==
    /\ timers # <<>>
    /\ LET res == archiveGroup(Head(timers))
       IN  /\ data' = res.data
           /\ storage' = BlobAfter(res)
           /\ ret' = res.ret
    /\ lastOp' = "autoArchive"
    /\ timers' = Tail(timers)
    /\ UNCHANGED <<nextId, now, calls, unarchived>>

NextUI ==
    \/ startFromTemplate
    \/ QuickAdd
    \/ ToggleItem
    \/ UIUnarchiveGroup
    \/ UIDeleteGroup
    \/ TimerFires

\* the browser runs every callback whose delay has elapsed
SpecUI == Init /\ [][NextUI]_vars /\ WF_vars(TimerFires)

\* what the template form submits here: one section that was given a title
\* and no item
FormSections == {<<[title |-> "S", items |-> <<>>]>>}

\* saveTemplate: the save button of the template form, a title being typed
\* and a section being there, for a new template or for the one being edited
saveTemplate ==
    \E title \in Titles, sd \in FormSections :
        \/ Handle("saveTemplate", createTemplate(title, sd), timers)
        \/ \E currentEditId \in TemplateIds :
              Handle("saveTemplate", updateTemplate(currentEditId, <<title>>, <<sd>>),
                     timers)

NextForm ==
    \/ saveTemplate
    \/ NextUI

\* the page with its template form
SpecForm == Init /\ [][NextForm]_vars /\ WF_vars(TimerFires)

(***************************************************************************)
(* The claims.                                                             *)
(***************************************************************************)
DistinctIds(records) ==
    \A i, j \in 1..Len(records) : i # j => records[i].id # records[j].id

\* C1: with a generator of fresh ids, in every reachable state the ids of
\* the templates are pairwise distinct and so are the ids of the groups, and
\* right after createTemplate returned T (directly, or called by
\* duplicateTemplate) getTemplates() holds exactly one entry with T's id.
C1_UniqueIds ==
    /\ DistinctIds(data.templates)
    /\ DistinctIds(data.groups)
    /\ (lastOp \in {"createTemplate", "duplicateTemplate"} /\ ret.kind = "obj")
        => Cardinality({i \in 1..Len(getTemplates) :
                            getTemplates[i].id = ret.val.id}) = 1

\* createTemplate has just returned a second template, beside two groups
C1_Witness ==
    /\ lastOp = "createTemplate"
    /\ ret.kind = "obj"
    /\ Len(data.templates) >= 2
    /\ Len(data.groups) >= 2

\* C2: a change to a group (a toggle of one of its items, archiving,
\* unarchiving, deleting it) leaves every template as it was: title,
\* sections, item texts and timestamps.
C2_GroupChangesKeepTemplates ==
    [][lastOp' \in {"toggleTodoCompletion", "archiveGroup",
                    "unarchiveGroup", "deleteGroup"}
        => data'.templates = data.templates]_vars

\* an item of a group instantiated from a template that is still in the
\* store has just been toggled
C2_Witness ==
    /\ lastOp = "toggleTodoCompletion"
    /\ ret.kind = "obj"
    /\ ret.val.templateId \in IdsOf(data.templates)
    /\ Has(ret.val, "sections")

\* the completed flags of the items of group that have the id todoId
CompletedOf(group, todoId) ==
    {it.completed : it \in {x \in ItemsOf(group) : x.id = todoId}}

\* C3: for every group g and item i of g, toggleTodoCompletion(g, i) called
\* now succeeds and flips i.completed, a second toggleTodoCompletion(g, i)
\* called after it, now or later, succeeds too and returns i.completed to
\* its original value, and g.updatedAt after each of the two toggles is at
\* least its value before that toggle.
C3_DoubleToggle ==
    \A g \in GroupIds :
        \A i \in ItemIdsOf(GroupById(data, g)), t2 \in now..MaxClock :
            LET before == GroupById(data, g)
                r1 == toggleTodoCompletionAt(data, now, g, i)
                r2 == toggleTodoCompletionAt(r1.data, t2, g, i)
            IN  /\ r1.ret.kind = "obj"
                /\ r2.ret.kind = "obj"
                /\ CompletedOf(r1.ret.val, i) # CompletedOf(before, i)
                /\ CompletedOf(r2.ret.val, i) = CompletedOf(before, i)
                /\ r1.ret.val.updatedAt >= before.updatedAt
                /\ r2.ret.val.updatedAt >= r1.ret.val.updatedAt

\* two calls were made, both toggles of the same item of the loaded flat
\* group: the last one succeeded and the items are as they were loaded
C3_Witness ==
    /\ calls = 2
    /\ lastOp = "toggleTodoCompletion"
    /\ ret.kind = "obj"
    /\ ret.val.id = LegacyGroup.id
    /\ ret.val.items = LegacyGroup.items
    /\ ret.val.updatedAt > LegacyGroup.updatedAt

\* group has at least one item and all its items are completed
EveryItemCompleted(group) ==
    /\ ItemsOf(group) # {}
    /\ \A it \in ItemsOf(group) : it.completed

\* C4: checkAllCompleted(g) is true exactly when the group g exists, has at
\* least one item (in its sections, or in its flat items for a legacy group)
\* and all of them are completed; so it is false for an unknown id and for a
\* group without items, and it is false for the group createGroupFromTemplate
\* has just returned.  The flat-item variant of the program agrees on the
\* groups that have flat items.
C4_CheckAllCompleted ==
    /\ \A g \in GroupIdArgs :
          checkAllCompleted(g)
          = (g \in GroupIds /\ EveryItemCompleted(GroupById(data, g)))
    /\ \A g \in GroupIds :
          Has(GroupById(data, g), "items")
          => (checkAllCompletedFlat(g) = EveryItemCompleted(GroupById(data, g)))
    /\ (lastOp = "createGroupFromTemplate" /\ ret.kind = "obj")
          => ~checkAllCompleted(ret.val.id)

\* a toggle has just completed the last open item of a sectioned group that
\* also has an empty section, beside a group that has only an empty section
C4_Witness ==
    /\ lastOp = "toggleTodoCompletion"
    /\ ret.kind = "obj"
    /\ Has(ret.val, "sections")
    /\ \E i \in 1..Len(ret.val.sections) : ret.val.sections[i].items = <<>>
    /\ checkAllCompleted(ret.val.id)
    /\ \E g \in GroupIds :
          /\ GroupById(data, g).sections # <<>>
          /\ ItemsOf(GroupById(data, g)) = {}

\* C5: in every reachable state, loading a new store from the persisted blob
\* does not throw and yields the templates and the groups the store holds in
\* memory: same order, ids, titles, item texts, completed flags, status,
\* createdAt, updatedAt.
C5_RoundTrip ==
    /\ ~_loadData(storage).threw
    /\ _loadData(storage).data.templates = data.templates
    /\ _loadData(storage).data.groups = data.groups

\* a toggle was saved: the store holds a template, a completed and an open
\* item, and timestamps that differ
C5_Witness ==
    /\ lastOp = "toggleTodoCompletion"
    /\ ret.kind = "obj"
    /\ data.templates # <<>>
    /\ ret.val.updatedAt # ret.val.createdAt
    /\ \E a, b \in ItemsOf(ret.val) : a.completed /\ ~b.completed

\* C6: every step that changes the store's in-memory state leaves in the
\* slot the serialization of the whole new in-memory state.
C6_WriteThrough ==
    [][data' # data => storage' = JSONstringify(data')]_vars

\* a group has just been archived
C6_Witness ==
    /\ lastOp = "archiveGroup"
    /\ ret.kind = "obj"
    /\ ret.val.status = "archived"
    /\ storage = JSONstringify(data)

\* C7: loading never fails: when the slot is missing or holds the empty
\* string or an unparsable text, the store starts with {templates: [],
\* groups: []}; when the stored document lacks the templates key or the
\* groups key, that key becomes an empty collection and the other key holds
\* what is stored under it.
C7_LoadNeverFails ==
    lastOp = "load"
    => /\ ret = RetUndefined
       /\ storage \in {Absent, EmptyText, GarbageText}
            => data = [templates |-> <<>>, groups |-> <<>>]
       /\ storage[1] = "obj"
            => /\ ~Has(storage[2], "templates")
                    => /\ data.templates = <<>>
                       /\ Has(storage[2], "groups")
                            => data.groups = ParseValue(storage[2].groups)
               /\ ~Has(storage[2], "groups")
                    => /\ data.groups = <<>>
                       /\ Has(storage[2], "templates")
                            => data.templates = ParseValue(storage[2].templates)

\* the page was reloaded on a document without the templates key: the
\* stored group is there
C7_Witness ==
    /\ lastOp = "load"
    /\ calls > 0
    /\ storage[1] = "obj"
    /\ ~Has(storage[2], "templates")
    /\ data.templates = <<>>
    /\ data.groups = <<LegacyGroup>>

\* the call returned null, left this.data as it was and left the slot as it
\* was
NothingHappens(res) ==
    /\ res.ret = RetNull
    /\ res.data = data
    /\ BlobAfter(res) = storage

\* C8: with a template id that no template has (an id never handed out, or
\* the id of a group), updateTemplate, duplicateTemplate and
\* createGroupFromTemplate, with a group id that no group has (an id never
\* handed out, or the id of a template), archiveGroup, unarchiveGroup and
\* toggleTodoCompletion, and with an existing group and an item id that is
\* not in that group, toggleTodoCompletion, each return null and leave the
\* templates, the groups (updatedAt included) and the persisted blob
\* unchanged.
C8_NotFound ==
    /\ \A id \in {UnknownId} \cup GroupIds :
          /\ \A title \in Optional(Titles), sd \in Optional(SectionInputs) :
                NothingHappens(updateTemplate(id, title, sd))
          /\ NothingHappens(duplicateTemplate(id))
          /\ NothingHappens(createGroupFromTemplate(id))
    /\ \A id \in {UnknownId} \cup TemplateIds :
          /\ NothingHappens(archiveGroup(id))
          /\ NothingHappens(unarchiveGroup(id))
          /\ \A item \in ItemIdArgs : NothingHappens(toggleTodoCompletion(id, item))
    /\ \A g \in GroupIds :
          \A item \in ItemIdArgs \ ItemIdsOf(GroupById(data, g)) :
              NothingHappens(toggleTodoCompletion(g, item))

\* a toggle has just returned null on a store that holds a group with items,
\* while the slot still holds a document that a save would replace
C8_Witness ==
    /\ lastOp = "toggleTodoCompletion"
    /\ ret = RetNull
    /\ \E g \in GroupIds : ItemsOf(GroupById(data, g)) # {}
    /\ storage # JSONstringify(data)

\* every id held by a template or a group: its own, its templateId, those of
\* its sections and those of its items
IdsIn(obj) ==
    {obj.id}
    \cup (IF Has(obj, "templateId") THEN {obj.templateId} \ {Null} ELSE {})
    \cup (IF Has(obj, "sections") THEN IdsOf(obj.sections) ELSE {})
    \cup {it.id : it \in {x \in ItemsOf(obj) : Has(x, "id")}}

StoreIds ==
    UNION {IdsIn(data.templates[i]) : i \in 1..Len(data.templates)}
    \cup UNION {IdsIn(data.groups[i]) : i \in 1..Len(data.groups)}

\* the ids generated for the group: its own, its sections', its items'
NewIdsOf(group) == IdsIn(group) \ {group.templateId}

\* how many ids the group needs: one, one per section, one per item
IdCount(group) == 1 + IdsUsed(group.sections)

\* the ids of the group are pairwise distinct and none is in the store
FreshIds(group) ==
    /\ Cardinality(NewIdsOf(group)) = IdCount(group)
    /\ NewIdsOf(group) \cap StoreIds = {}

NoneCompleted(group) == \A it \in ItemsOf(group) : ~it.completed

\* C9: for every template t that has sections, createGroupFromTemplate(t.id)
\* appends one group and changes nothing else; the group has status active,
\* templateId t.id, t's title, as many sections as t with the same titles in
\* the same order, in each section t's item texts in the same order, every
\* item not completed, and ids for itself, its sections and its items that
\* are pairwise distinct and not in the store.
C9_InstantiateSectioned ==
    \A tid \in TemplateIds :
        LET t == data.templates[FindIndex(data.templates, tid)]
            r == createGroupFromTemplate(tid)
            g == r.ret.val
        IN  Has(t, "sections")
            => /\ r.ret.kind = "obj"
               /\ r.data.groups = Append(data.groups, g)
               /\ r.data.templates = data.templates
               /\ g.status = "active"
               /\ g.templateId = tid
               /\ g.title = t.title
               /\ ~Has(g, "items")
               /\ Len(g.sections) = Len(t.sections)
               /\ \A i \in 1..Len(t.sections) :
                     /\ g.sections[i].title = t.sections[i].title
                     /\ ItemTexts(g.sections[i].items) = ItemTexts(t.sections[i].items)
               /\ NoneCompleted(g)
               /\ FreshIds(g)

\* createGroupFromTemplate has just returned a group for a template of two
\* sections, one of them with two items, in a store that held a group already
C9_Witness ==
    /\ lastOp = "createGroupFromTemplate"
    /\ ret.kind = "obj"
    /\ Len(data.groups) >= 2
    /\ \E i \in 1..Len(data.templates) :
          /\ data.templates[i].id = ret.val.templateId
          /\ Has(data.templates[i], "sections")
          /\ Len(data.templates[i].sections) = 2
          /\ Len(data.templates[i].sections[2].items) = 2
    /\ Len(ret.val.sections) = 2

\* C10: for every legacy-shaped template t (flat items, no sections key),
\* createGroupFromTemplate(t.id) returns a group with exactly one section,
\* the synthesized one, whose items have t's item texts in the same order,
\* each not completed, the ids of the group, the section and the items being
\* pairwise distinct and not in the store.
C10_InstantiateLegacy ==
    \A tid \in TemplateIds :
        LET t == data.templates[FindIndex(data.templates, tid)]
            r == createGroupFromTemplate(tid)
            g == r.ret.val
        IN  (~Has(t, "sections") /\ Has(t, "items"))
            => /\ r.ret.kind = "obj"
               /\ Len(g.sections) = 1
               /\ g.sections[1].title = GeneralTitle
               /\ ItemTexts(g.sections[1].items) = ItemTexts(t.items)
               /\ NoneCompleted(g)
               /\ FreshIds(g)

\* createGroupFromTemplate has just returned the group of the loaded flat
\* template: one section with the two items
C10_Witness ==
    /\ lastOp = "createGroupFromTemplate"
    /\ ret.kind = "obj"
    /\ ret.val.templateId = LegacyTemplate.id
    /\ \E i \in 1..Len(data.templates) :
          /\ data.templates[i].id = LegacyTemplate.id
          /\ ~Has(data.templates[i], "sections")
    /\ Len(ret.val.sections) = 1
    /\ ItemTexts(ret.val.sections[1].items) = <<"a", "b">>

\* C11: a call of deleteTemplate or of updateTemplate leaves the groups as
\* they were: same groups in the same order, each with its title, sections,
\* items, completed flags, status, templateId, createdAt and updatedAt, the
\* groups instantiated from that template included.
C11_TemplateChangesKeepGroups ==
    [][lastOp' \in {"deleteTemplate", "updateTemplate"}
        => data'.groups = data.groups]_vars

\* deleteTemplate has just removed a template: a group in the store still
\* carries the id of a template that is gone
C11_Witness ==
    /\ lastOp = "deleteTemplate"
    /\ \E i \in 1..Len(data.groups) :
          /\ data.groups[i].templateId # Null
          /\ data.groups[i].templateId \notin IdsOf(data.templates)
          /\ ItemsOf(data.groups[i]) # {}

\* the active view and the archived view split the groups in two
ViewsPartition ==
    LET active == getGroups("active")
        archived == getGroups("archived")
        all == getGroups("all")
    IN  /\ \A i \in 1..Len(all) : all[i].status \in {"active", "archived"}
        /\ Range(active) \cap Range(archived) = {}
        /\ Range(active) \cup Range(archived) = Range(all)
        /\ Len(active) + Len(archived) = Len(all)
        /\ \A g \in Range(active) : g.status = "active"
        /\ \A g \in Range(archived) : g.status = "archived"

\* C12: in every reachable state each group has status active or archived,
\* getGroups('active') and getGroups('archived') are disjoint, hold together
\* exactly the groups of getGroups('all'), and hold only groups of their own
\* status; and the status of a group changes only in a call of archiveGroup
\* on it, to archived, or of unarchiveGroup on it, to active.
C12_StatusAndViews ==
    /\ []ViewsPartition
    /\ [][\A g \in GroupIds \cap IdsOf(data'.groups) :
            GroupById(data', g).status # GroupById(data, g).status
            => /\ ret' = RetObj(GroupById(data', g))
               /\ \/ /\ lastOp' = "archiveGroup"
                     /\ GroupById(data', g).status = "archived"
                  \/ /\ lastOp' = "unarchiveGroup"
                     /\ GroupById(data', g).status = "active"]_vars

\* a group has just been archived while another group is active: both
\* views are non-empty
C12_Witness ==
    /\ lastOp = "archiveGroup"
    /\ ret.kind = "obj"
    /\ ret.val.status = "archived"
    /\ getGroups("active") # <<>>
    /\ getGroups("archived") # <<>>

\* records without its element at index k (records itself when k = 0)
Without(records, k) ==
    IF k = 0 THEN records
    ELSE SubSeq(records, 1, k - 1) \o SubSeq(records, k + 1, Len(records))

\* what the two delete methods do in the current state, for every id
DeleteRemovesOne ==
    /\ \A id \in TemplateIdArgs \cup GroupIds :
          LET r == deleteTemplate(id)
          IN  /\ r.ret = RetUndefined
              /\ r.data.templates
                    = Without(data.templates, FindIndex(data.templates, id))
              /\ r.data.groups = data.groups
    /\ \A id \in GroupIdArgs \cup TemplateIds :
          LET r == deleteGroup(id)
          IN  /\ r.ret = RetUndefined
              /\ r.data.groups = Without(data.groups, FindIndex(data.groups, id))
              /\ r.data.templates = data.templates

\* C13: in every reachable state, for every id, known or not,
\* deleteTemplate(id) returns without a value and leaves the templates without the one that has that id, the
\* others in their order, and the groups as they were; deleteGroup(id) does
\* the same to the groups and leaves the templates as they were; with an id
\* that no record has both collections are as they were.
C13_DeleteRemovesOne == []DeleteRemovesOne

\* deleteGroup has just removed the first of two groups: the second one is
\* still there, and so is a template
C13_Witness ==
    /\ lastOp = "deleteGroup"
    /\ calls = 2
    /\ Len(data.groups) = 1
    /\ data.groups[1].id >= FirstFreshId
    /\ data.templates # <<>>

\* the titles of a list of sections, and the item texts of each, in order
Outline(sections) ==
    [i \in 1..Len(sections) |->
        [title |-> sections[i].title, items |-> ItemTexts(sections[i].items)]]

\* what updateTemplate does in the current state, for every template and
\* every choice of arguments
UpdateReplaces ==
    \A tid \in TemplateIds :
        \A title \in Optional(Titles), sd \in Optional(TemplateSectionInputs) :
            LET ti == FindIndex(data.templates, tid)
                t == data.templates[ti]
                r == updateTemplate(tid, title, sd)
                u == r.ret.val
            IN  /\ r.ret.kind = "obj"
                /\ Len(r.data.templates) = Len(data.templates)
                /\ r.data.templates[ti] = u
                /\ \A j \in 1..Len(data.templates) :
                      j # ti => r.data.templates[j] = data.templates[j]
                /\ r.data.groups = data.groups
                /\ u.id = t.id
                /\ u.createdAt = t.createdAt
                /\ u.updatedAt = now
                /\ u.title = (IF title = <<>> THEN t.title ELSE title[1])
                /\ IF sd = <<>>
                   THEN /\ Has(u, "sections") = Has(t, "sections")
                        /\ Has(t, "sections") => u.sections = t.sections
                   ELSE Outline(u.sections) = sd[1]

\* C14: in every reachable state, for every template t of the store and
\* every choice of title and sections, supplied or not, updateTemplate(t.id, title, sections) returns
\* the updated template, which sits where t was, has t's id and createdAt,
\* updatedAt equal to the current time, the supplied title or else t's, and
\* sections that have exactly the supplied titles and item texts in the
\* supplied order or else are t's; the other templates and the groups are as
\* they were.
C14_UpdateTemplate == []UpdateReplaces

\* updateTemplate has just replaced, at a later time, the two sections of a
\* template by none, beside another template
C14_Witness ==
    /\ lastOp = "updateTemplate"
    /\ ret.kind = "obj"
    /\ ret.val.id = SectionedTemplate.id
    /\ ret.val.sections = <<>>
    /\ ret.val.updatedAt > ret.val.createdAt
    /\ Len(data.templates) = 2

\* C15: for every template t of the store that has a sections array, empty
\* or not, duplicateTemplate(t.id) returns a new template and appends it, and only
\* it, to the templates, t and the others staying as they were; the new
\* template has an id no template had, the title of t followed by the copy
\* suffix, the section titles and item texts of t in the same order, and
\* section ids that are pairwise distinct, differ from its own id and are no
\* id of the store, those of t's sections included; the groups are as they
\* were.
C15_DuplicateTemplate ==
    \A tid \in TemplateIds :
        LET t == data.templates[FindIndex(data.templates, tid)]
            r == duplicateTemplate(tid)
            c == r.ret.val
        IN  Has(t, "sections")
            => /\ r.ret.kind = "obj"
               /\ r.data.templates = Append(data.templates, c)
               /\ r.data.groups = data.groups
               /\ c.id \notin TemplateIds
               /\ c.title = t.title \o CopySuffix
               /\ Outline(c.sections) = Outline(t.sections)
               /\ Cardinality(IdsIn(c)) = 1 + Len(t.sections)
               /\ IdsIn(c) \cap StoreIds = {}

\* the record of records that has that id
ById(records, id) == records[FindIndex(records, id)]

\* every record of old that is still in new has the createdAt it had and an
\* updatedAt that is not smaller
StampsKept(old, new) ==
    \A id \in IdsOf(old) \cap IdsOf(new) :
        /\ ById(new, id).createdAt = ById(old, id).createdAt
        /\ ById(new, id).updatedAt >= ById(old, id).updatedAt

\* C16: in every reachable state each template and each group has
\* updatedAt >= createdAt, and no step changes the createdAt or lowers the
\* updatedAt of a template or group that is in the store before and after
\* it, the clock not going backwards.
C16_Timestamps ==
    /\ [](\A r \in Range(data.templates) \cup Range(data.groups) :
            r.updatedAt >= r.createdAt)
    /\ [][/\ StampsKept(data.templates, data'.templates)
          /\ StampsKept(data.groups, data'.groups)]_vars

\* a group made at time 0 has just been touched at a later time, beside a
\* template that was touched at a later time too
C16_Witness ==
    /\ lastOp \in {"toggleTodoCompletion", "archiveGroup"}
    /\ ret.kind = "obj"
    /\ ret.val.createdAt = 0
    /\ ret.val.updatedAt > 0
    /\ \E t \in Range(data.templates) : t.updatedAt > t.createdAt

\* items with every completed flag lowered
Blank(items) == [k \in 1..Len(items) |-> [items[k] EXCEPT !.completed = FALSE]]

\* group with every completed flag lowered and updatedAt reset: its id,
\* title, templateId, status, createdAt, and its sections and items with
\* their ids, titles, texts and order
Skeleton(group) ==
    LET g1 == IF Has(group, "sections")
              THEN [group EXCEPT !.sections =
                      [s \in 1..Len(group.sections) |->
                          [group.sections[s] EXCEPT
                              !.items = Blank(group.sections[s].items)]]]
              ELSE group
        g2 == IF Has(g1, "items") THEN [g1 EXCEPT !.items = Blank(g1.items)]
              ELSE g1
    IN  [g2 EXCEPT !.updatedAt = 0]

\* what toggleTodoCompletion does in the current state, for every group and
\* every item of it
ToggleFlipsOne ==
    \A g \in GroupIds :
        \A i \in ItemIdsOf(GroupById(data, g)) :
            LET gi == FindIndex(data.groups, g)
                b == data.groups[gi]
                r == toggleTodoCompletion(g, i)
                u == r.ret.val
                old == CHOOSE x \in ItemsOf(b) : x.id = i
            IN  /\ r.ret.kind = "obj"
                /\ r.data.templates = data.templates
                /\ r.data.groups = [data.groups EXCEPT ![gi] = u]
                /\ Skeleton(u) = Skeleton(b)
                /\ u.updatedAt = now
                /\ ItemsOf(u) = (ItemsOf(b) \ {old})
                                  \cup {[old EXCEPT !.completed = ~old.completed]}

\* C20: in every reachable state, for every group g of the store and every
\* item i of g, toggleTodoCompletion(g, i) returns g as it is afterwards: updatedAt is the
\* current time, the item with id i has its completed flag negated, every
\* other item has the flag it had, and status, title, templateId, createdAt,
\* the sections and the items with their ids, titles, texts and order are as
\* they were; the other groups keep their place and content and the
\* templates are as they were.
C20_ToggleFrame == []ToggleFlipsOne

\* a toggle made at a later time has just completed one item of a group of
\* two sections while the other item stays completed, beside another group
C20_Witness ==
    /\ lastOp = "toggleTodoCompletion"
    /\ ret.kind = "obj"
    /\ Has(ret.val, "sections")
    /\ Len(ret.val.sections) = 2
    /\ Cardinality(ItemsOf(ret.val)) = 2
    /\ \A it \in ItemsOf(ret.val) : it.completed
    /\ ret.val.updatedAt > ret.val.createdAt
    /\ Len(data.groups) = 2

\* C17: a group is never archived by a timer while it has an incomplete
\* item: a toggle that re-opens an item of the group before the timer fires
\* cancels the pending archive.
C17_ReopenCancels ==
    (lastOp = "autoArchive" /\ ret.kind = "obj")
    => \A it \in ItemsOf(ret.val) : it.completed

\* C18: while a timer is pending for a group that is in the store, the group
\* is active, whatever the order of the clicks and the timers, also when
\* several timers are pending for the group.
C18_ActiveWhilePending ==
    \A k \in 1..Len(timers) :
        timers[k] \in GroupIds => GroupById(data, timers[k]).status = "active"

\* how many ids the quick-add button takes: the section's and the group's
QuickAddStep == 1 + IdsUsed(QuickAddSections)

\* how many ids the start button takes, for the loaded flat template and for
\* the sectioned one: the sections', the items' and, last, the group's
TemplateSteps ==
    {1 + IdsUsed(<<[items |-> LegacyTemplate.items]>>),
     1 + IdsUsed(SectionedTemplate.sections)}

\* the next id after at most n clicks that each take one of steps ids
RECURSIVE IdsAfter(_, _)
IdsAfter(n, steps) ==
    IF n = 0 THEN {FirstFreshId}
    ELSE IdsAfter(n - 1, steps)
         \cup {i + k : i \in IdsAfter(n - 1, steps), k \in steps}

\* the ids a group whose items the clicks complete can have: those of the
\* loaded groups, and those of the groups started from the template of the
\* store by a click that leaves two clicks for the two items
IdSpace ==
    {LegacyGroup.id, SectionedGroup.id}
    \cup UNION {{i + k - 1 : i \in IdsAfter(MaxEvents - 3, {QuickAddStep, k})} :
                  k \in TemplateSteps}

\* toggleItem has just left every item of the active group g completed
CompletedByToggle(g) ==
    /\ lastOp = "toggleItem"
    /\ ret.kind = "obj"
    /\ ret.val.id = g
    /\ ret.val.status = "active"
    /\ checkAllCompleted(g)

\* C19: whenever toggleItem leaves every item of an active group g
\* completed, later on g is archived or is no longer in the store, the
\* pending callbacks being run; g is one of the ids of IdSpace.
C19_AutoArchive ==
    /\ [](\A g \in GroupIds : CompletedByToggle(g) => g \in IdSpace)
    /\ \A g \in IdSpace :
          CompletedByToggle(g) ~>
              (g \notin GroupIds \/ GroupById(data, g).status = "archived")

\* the timer of a group that a click completed has just archived it, while a
\* group started from the template afterwards is active
C19_Witness ==
    /\ lastOp = "autoArchive"
    /\ ret.kind = "obj"
    /\ ret.val.status = "archived"
    /\ EveryItemCompleted(ret.val)
    /\ timers = <<>>
    /\ \E g \in ActiveGroupIds : g >= FirstFreshId

\* C21: when updateTemplate has just returned a template with the sections
\* it was given, a flat-item template loaded from storage included,
\* duplicateTemplate and createGroupFromTemplate of that template both
\* produce exactly those section titles and item texts (none when the
\* sections are empty): no item the template had before the update comes
\* back, and the two methods agree on what a legacy template is.
C21_UpdateThenCopy ==
    (lastOp = "updateTemplate" /\ ret.kind = "obj" /\ Has(ret.val, "sections"))
    => LET copy == duplicateTemplate(ret.val.id)
           group == createGroupFromTemplate(ret.val.id)
       IN  /\ copy.ret.kind = "obj"
           /\ group.ret.kind = "obj"
           /\ Outline(copy.ret.val.sections) = Outline(ret.val.sections)
           /\ Outline(group.ret.val.sections) = Outline(ret.val.sections)

\* C22: a group the user unarchived from the page is active for as long as
\* no item of it is toggled again: no timer scheduled before the unarchive
\* fires afterwards and archives it again.
C22_UnarchiveSticks ==
    \A g \in unarchived \cap GroupIds : GroupById(data, g).status = "active"

\* C23: when the oldest pending timer is for a group that is no longer in
\* the store, its firing changes nothing in the store: archiveGroup returns
\* null and does not throw, the group is not back, and the templates, the
\* groups and the persisted blob are as they were.
C23_TimerAfterDelete ==
    [][(/\ timers # <<>>
        /\ Head(timers) \notin GroupIds
        /\ lastOp' = "autoArchive"
        /\ timers' = Tail(timers))
        => /\ ret' = RetNull
           /\ data' = data
           /\ storage' = storage]_vars

\* the timer of a group that was completed and then deleted has just fired,
\* beside a template and another group
C23_Witness ==
    /\ lastOp = "autoArchive"
    /\ ret = RetNull
    /\ data.templates # <<>>
    /\ data.groups # <<>>
    /\ storage = JSONstringify(data)

\* C24: a group without items (made by the quick-add button, or started
\* from a template without items) has no timer pending for it and is active
\* in every reachable state of the page, so it stays active until it is
\* deleted; and no step adds an item to a group of the store or takes one
\* from it.
C24_EmptyGroupStaysActive ==
    /\ [](\A g \in GroupIds :
            ItemsOf(GroupById(data, g)) = {}
            => /\ GroupById(data, g).status = "active"
               /\ g \notin Range(timers))
    /\ [][\A g \in GroupIds \cap IdsOf(data'.groups) :
            ItemIdsOf(GroupById(data', g)) = ItemIdsOf(GroupById(data, g))]_vars

\* a timer has just archived a completed group while the store holds a
\* group without items made by the quick-add button and another one started
\* from a template without items
C24_Witness ==
    /\ lastOp = "autoArchive"
    /\ ret.kind = "obj"
    /\ ret.val.status = "archived"
    /\ \E g, h \in ActiveGroupIds :
          /\ ItemsOf(GroupById(data, g)) = {}
          /\ GroupById(data, g).templateId = Null
          /\ ItemsOf(GroupById(data, h)) = {}
          /\ GroupById(data, h).templateId \in TemplateIds

====
